---- MODULE Spec2Model ----
(***************************************************************************)
(* The voice session of App (src/unnamed/part_000): the React state, the   *)
(* refs, the resources the refs point to, and one action per handler or    *)
(* callback of startSession / stopSession.                                 *)
(*                                                                         *)
(* Objects are named by the startSession invocation that created them:     *)
(* invocation i creates audio contexts i, media stream i, processor i,     *)
(* analyser i and channel (live session) i.  A ref holds Null or such an   *)
(* id.  Times are in tenths of a second.                                   *)
(***************************************************************************)
EXTENDS Integers, Sequences, FiniteSets, TLC

\* ----------------------------------------------------------------- bounds
\* Spec: two startSession invocations may be in flight together.
MaxStarts == 2          \* startSession invocations in one run
MaxMsgs   == 1          \* inbound messages in one run
MaxTime   == 1          \* cap of the output-device clocks
\* SpecPlayback: one invocation, a longer inbound stream and clock.
PlaybackStarts == 1
PlaybackMsgs   == 2
PlaybackTime   == 2
\* SpecMeter: one invocation, every frequency snapshot, close() may throw.
MeterStarts == 1
MeterMsgs   == 1
MeterTime   == 1
NumBins     == 2        \* bins in one frequency snapshot
\* SpecCapture: one invocation, the outbound messages are recorded.
CaptureStarts == 1
CaptureMsgs   == 1
CaptureTime   == 1
MaxOutbound   == 2      \* outbound messages recorded for one channel

\* ------------------------------------------------------ program constants
Null         == 0       \* useRef(null)
Epsilon      == 1       \* 0.1 s, in tenths of a second
VolumeNorm   == 100     \* average / 100
MaxByte      == 255     \* largest element of a Uint8Array
BytesPerSample == 2     \* 16-bit PCM

Max(a, b) == IF a >= b THEN a ELSE b
Min(a, b) == IF a <= b THEN a ELSE b

Invocations == 1..Max(Max(MaxStarts, CaptureStarts), Max(PlaybackStarts, MeterStarts))
PayloadLengths == {2, 3, 4}            \* byte lengths of inbound audio payloads
BinValues   == {0, 90, MaxByte}        \* values of one frequency bin
NoError     == "null"
ErrorTexts  == {"", "NotAllowedError"} \* err.message of a rejected promise

VARIABLES
  env,                     \* the bounds and inputs of the specification
  API_KEY,                 \* process.env.API_KEY is set
  isConnected, error, volume, isAiSpeaking,          \* React state
  inputAudioContextRef, outputAudioContextRef, inputMediaStreamRef,
  inputSourceRef, processorRef, analyserRef, nextStartTimeRef,
  aiSessionRef, animationFrameRef,                   \* refs
  started,                 \* number of startSession invocations so far
  pc,                      \* where each invocation of startSession is
  chan,                    \* state of each invocation's channel
  ictxOpen, octxOpen,      \* audio context i is not closed
  streamLive,              \* media stream i has a live track
  tapConnected,            \* processor i is connected
  rafLoop,                 \* updateVolume of invocation i has a frame requested
  octxTime,                \* currentTime of output context i
  msgCount,                \* inbound messages delivered so far
  decoding,                \* onmessage calls suspended at decodeAudioData
  scheduled,               \* history: segments started since the last cleanup
  ended,                   \* onended callbacks not fired yet
  dropped,                 \* history: messages dropped since the last cleanup
  rejected,                \* history: a start request was refused since then
  onaudioprocess,          \* processor i has its onaudioprocess handler
  outbound,                \* history: what was sent on channel i, in order
  lost                     \* history: a chunk of processor i found no handler

state == <<isConnected, error, volume, isAiSpeaking>>
refs == <<inputAudioContextRef, outputAudioContextRef, inputMediaStreamRef,
          inputSourceRef, processorRef, analyserRef, nextStartTimeRef,
          aiSessionRef, animationFrameRef>>
devices == <<chan, ictxOpen, octxOpen, streamLive, tapConnected, rafLoop>>
playback == <<msgCount, decoding, scheduled, ended, dropped>>
fixed == <<env, API_KEY>>
capture == <<onaudioprocess, outbound, lost>>
vars == <<fixed, state, refs, started, pc, devices, octxTime, playback, rejected,
          capture>>

RECURSIVE SumTo(_, _)
SumTo(dataArray, n) == IF n = 0 THEN 0 ELSE SumTo(dataArray, n - 1) + dataArray[n]

\* The volume signal is kept as a numerator over VolumeDen.
VolumeDen == VolumeNorm * NumBins

\* The snapshots an analyser can return when each bin is drawn from bins.
Snapshots(bins) == [1..NumBins -> bins]

InitApp ==
  /\ API_KEY \in BOOLEAN
  /\ isConnected = FALSE /\ error = NoError /\ volume = 0 /\ isAiSpeaking = FALSE
  /\ inputAudioContextRef = Null /\ outputAudioContextRef = Null
  /\ inputMediaStreamRef = Null /\ inputSourceRef = Null /\ processorRef = Null
  /\ analyserRef = Null /\ nextStartTimeRef = 0 /\ aiSessionRef = Null
  /\ animationFrameRef = Null
  /\ started = 0
  /\ pc = [i \in Invocations |-> "unborn"]
  /\ chan = [i \in Invocations |-> "none"]
  /\ ictxOpen = [i \in Invocations |-> FALSE]
  /\ octxOpen = [i \in Invocations |-> FALSE]
  /\ streamLive = [i \in Invocations |-> FALSE]
  /\ tapConnected = [i \in Invocations |-> FALSE]
  /\ rafLoop = [i \in Invocations |-> FALSE]
  /\ octxTime = [i \in Invocations |-> 0]
  /\ msgCount = 0 /\ decoding = {} /\ scheduled = <<>> /\ ended = {}
  /\ dropped = {}
  /\ rejected = FALSE
  /\ onaudioprocess = [i \in Invocations |-> FALSE]
  /\ outbound = [i \in Invocations |-> <<>>]
  /\ lost = [i \in Invocations |-> FALSE]

Init ==
  /\ env = [starts |-> MaxStarts, msgs |-> MaxMsgs, time |-> MaxTime,
            bins |-> {0, MaxByte}, throws |-> BOOLEAN, payloads |-> {2, 3},
            capture |-> FALSE, outbox |-> MaxOutbound]
  /\ InitApp

InitPlayback ==
  /\ env = [starts |-> PlaybackStarts, msgs |-> PlaybackMsgs,
            time |-> PlaybackTime, bins |-> {MaxByte}, throws |-> {FALSE},
            payloads |-> {3, 4}, capture |-> FALSE, outbox |-> MaxOutbound]
  /\ InitApp

InitMeter ==
  /\ env = [starts |-> MeterStarts, msgs |-> MeterMsgs, time |-> MeterTime,
            bins |-> BinValues, throws |-> BOOLEAN, payloads |-> {2},
            capture |-> FALSE, outbox |-> MaxOutbound]
  /\ InitApp

InitCapture ==
  /\ env = [starts |-> CaptureStarts, msgs |-> CaptureMsgs, time |-> CaptureTime,
            bins |-> {MaxByte}, throws |-> {FALSE}, payloads |-> {2},
            capture |-> TRUE, outbox |-> MaxOutbound]
  /\ InitApp

\* --------------------------------------------------------------- cleanup
\* Mutant: no try/catch around close(): the session ref is cleared and the
\* exception ends stopSession there.
stopSessionAborts(ms, live, ch, closeThrows) ==
  IF closeThrows /\ aiSessionRef # Null
  THEN /\ chan' = ch /\ streamLive' = live
       /\ aiSessionRef' = Null
       /\ UNCHANGED <<inputMediaStreamRef, tapConnected,
                      processorRef, inputSourceRef, ictxOpen,
                      inputAudioContextRef, octxOpen, outputAudioContextRef,
                      rafLoop, animationFrameRef, isConnected, isAiSpeaking,
                      volume, nextStartTimeRef, scheduled, dropped, rejected>>
  ELSE /\ chan' = IF aiSessionRef # Null /\ ch[aiSessionRef] = "open"
                  THEN [ch EXCEPT ![aiSessionRef] = "closing"] ELSE ch
       /\ aiSessionRef' = Null
       /\ streamLive' = IF ms # Null THEN [live EXCEPT ![ms] = FALSE] ELSE live
       /\ inputMediaStreamRef' = Null
       /\ tapConnected' = IF processorRef # Null
                          THEN [tapConnected EXCEPT ![processorRef] = FALSE]
                          ELSE tapConnected
       /\ processorRef' = Null
       /\ inputSourceRef' = Null
       /\ ictxOpen' = IF inputAudioContextRef # Null
                      THEN [ictxOpen EXCEPT ![inputAudioContextRef] = FALSE]
                      ELSE ictxOpen
       /\ inputAudioContextRef' = Null
       /\ octxOpen' = IF outputAudioContextRef # Null
                      THEN [octxOpen EXCEPT ![outputAudioContextRef] = FALSE]
                      ELSE octxOpen
       /\ outputAudioContextRef' = Null
       /\ rafLoop' = IF animationFrameRef # Null
                     THEN [rafLoop EXCEPT ![animationFrameRef] = FALSE]
                     ELSE rafLoop
       /\ animationFrameRef' = Null
       /\ isConnected' = FALSE
       /\ isAiSpeaking' = FALSE
       /\ volume' = 0
       /\ nextStartTimeRef' = 0
       /\ scheduled' = <<>> /\ dropped' = {} /\ rejected' = FALSE

\* stopSession, run when the media-stream ref is ms, the streams are live and
\* the channels are ch (a handler may have changed these before it calls
\* stopSession).  closeThrows: session.close() throws and closes nothing.
stopSession(ms, live, ch, closeThrows) ==
  /\ chan' = IF aiSessionRef # Null /\ ~closeThrows /\ ch[aiSessionRef] = "open"
             THEN [ch EXCEPT ![aiSessionRef] = "closing"] ELSE ch
  /\ aiSessionRef' = Null
  /\ streamLive' = IF ms # Null THEN [live EXCEPT ![ms] = FALSE] ELSE live
  /\ inputMediaStreamRef' = Null
  /\ tapConnected' = IF processorRef # Null
                     THEN [tapConnected EXCEPT ![processorRef] = FALSE]
                     ELSE tapConnected
  /\ processorRef' = Null
  /\ inputSourceRef' = Null
  /\ ictxOpen' = IF inputAudioContextRef # Null
                 THEN [ictxOpen EXCEPT ![inputAudioContextRef] = FALSE]
                 ELSE ictxOpen
  /\ inputAudioContextRef' = Null
  /\ octxOpen' = IF outputAudioContextRef # Null
                 THEN [octxOpen EXCEPT ![outputAudioContextRef] = FALSE]
                 ELSE octxOpen
  /\ outputAudioContextRef' = Null
  /\ rafLoop' = IF animationFrameRef # Null
                THEN [rafLoop EXCEPT ![animationFrameRef] = FALSE]
                ELSE rafLoop
  /\ animationFrameRef' = Null
  /\ isConnected' = FALSE
  /\ isAiSpeaking' = FALSE
  /\ volume' = 0
  /\ nextStartTimeRef' = 0
  /\ scheduled' = <<>> /\ dropped' = {} /\ rejected' = FALSE

\* What stopSession and the handlers that only call it leave alone.
untouched == <<fixed, capture, analyserRef, started, octxTime, msgCount, decoding, ended>>

\* err.message || "Failed to initialize."
ErrorMessage(message) == IF message = "" THEN "Failed to initialize." ELSE message

\* catch (err) of startSession.
startSessionCatch(i, message, ms, live, ch, closeThrows) ==
  /\ error' = ErrorMessage(message)
  /\ stopSession(ms, live, ch, closeThrows)
  /\ pc' = [pc EXCEPT ![i] = "returned"]
  /\ UNCHANGED untouched

\* --------------------------------------------------------------- controls
\* The INITIALIZE button is rendered when not connected, TERMINATE otherwise.
StartControlShown == ~isConnected
StopControlShown == isConnected

\* startSession up to its first await (getUserMedia).
startSession(closeThrows) ==
  LET i == started + 1 IN
  IF ~API_KEY
  THEN /\ error' = "API Key is missing."
       /\ stopSession(inputMediaStreamRef, streamLive, chan, closeThrows)
       /\ started' = i
       /\ pc' = [pc EXCEPT ![i] = "returned"]
       /\ UNCHANGED <<fixed, capture, analyserRef, octxTime, msgCount, decoding, ended>>
  ELSE /\ error' = NoError
       /\ inputAudioContextRef' = i
       /\ outputAudioContextRef' = i
       /\ ictxOpen' = [ictxOpen EXCEPT ![i] = TRUE]
       /\ octxOpen' = [octxOpen EXCEPT ![i] = TRUE]
       /\ started' = i
       /\ pc' = [pc EXCEPT ![i] = "awaitMedia"]
       /\ UNCHANGED <<fixed, capture, isConnected, volume, isAiSpeaking,
                      inputMediaStreamRef, inputSourceRef, processorRef,
                      analyserRef, nextStartTimeRef, aiSessionRef,
                      animationFrameRef, chan, streamLive, tapConnected,
                      rafLoop, octxTime, playback, rejected>>

\* Mutant: the one button toggles, so a start request made while connected
\* ends the session.
StartRequestStops ==
  /\ stopSession(inputMediaStreamRef, streamLive, chan, FALSE)
  /\ UNCHANGED <<untouched, error, pc>>

\* A start request while TERMINATE is rendered in place of INITIALIZE: there
\* is no control that would call startSession.
StartRequestIgnored ==
  /\ rejected' = TRUE
  /\ UNCHANGED <<fixed, capture, state, refs, started, pc, devices, octxTime, playback>>

\* A start request from the user.
ClickStart ==
  IF StartControlShown
  THEN /\ started < env.starts
       /\ \E closeThrows \in env.throws : startSession(closeThrows)
  ELSE StartRequestIgnored

\* A stop request from the user: the TERMINATE button calls stopSession.
ClickStop ==
  /\ StopControlShown
  /\ \E closeThrows \in env.throws :
       stopSession(inputMediaStreamRef, streamLive, chan, closeThrows)
  /\ UNCHANGED <<untouched, error, pc>>

\* ------------------------------------------------- startSession, resumed
\* getUserMedia resolves: lines 112-135, up to the await of the connect promise.
GetUserMediaResolved(i) ==
  /\ pc[i] = "awaitMedia"
  /\ IF inputAudioContextRef = Null
     THEN \* inputCtx is null: createMediaStreamSource throws a TypeError
          \E closeThrows \in env.throws :
             startSessionCatch(i, "TypeError", i,
                               [streamLive EXCEPT ![i] = TRUE], chan, closeThrows)
     ELSE /\ streamLive' = [streamLive EXCEPT ![i] = TRUE]
          /\ inputMediaStreamRef' = i
          /\ inputSourceRef' = i
          /\ analyserRef' = i
          /\ processorRef' = i
          /\ tapConnected' = [tapConnected EXCEPT ![i] = TRUE]
          /\ chan' = [chan EXCEPT ![i] = "opening"]
          /\ pc' = [pc EXCEPT ![i] = "awaitConnect"]
          /\ UNCHANGED <<fixed, capture, state, inputAudioContextRef,
                         outputAudioContextRef, nextStartTimeRef, aiSessionRef,
                         animationFrameRef, started, ictxOpen, octxOpen, rafLoop,
                         octxTime, playback, rejected>>

\* getUserMedia rejects: the catch block.
GetUserMediaRejected(i) ==
  /\ pc[i] = "awaitMedia"
  /\ \E message \in ErrorTexts, closeThrows \in env.throws :
       startSessionCatch(i, message, inputMediaStreamRef, streamLive, chan,
                         closeThrows)

\* Mutant: average / 100 without Math.min.
VolumeUnclamped(dataArray) == SumTo(dataArray, NumBins)

\* Math.min(average / 100, 1), as a numerator over VolumeDen.
VolumeOf(dataArray) == Min(SumTo(dataArray, NumBins), VolumeDen)

\* updateVolume of invocation i: one tick, and the next frame requested.
updateVolume(i) ==
  /\ IF analyserRef # Null
     THEN \E dataArray \in Snapshots(env.bins) : volume' = VolumeOf(dataArray)
     ELSE UNCHANGED volume
  /\ animationFrameRef' = i
  /\ rafLoop' = [rafLoop EXCEPT ![i] = TRUE]

\* session.sendRealtimeInput on channel i.  The message is recorded in the
\* specification that observes the outbound channel.
sendRealtimeInput(i, content) ==
  outbound' = IF env.capture
              THEN [outbound EXCEPT ![i] = Append(@, content)]
              ELSE outbound

\* Mutant: onopen sends nothing.
ChannelOpenedSilent(i) ==
  /\ pc[i] = "awaitConnect"
  /\ chan[i] = "opening"
  /\ chan' = [chan EXCEPT ![i] = "open"]
  /\ isConnected' = TRUE
  /\ aiSessionRef' = i
  /\ onaudioprocess' = [onaudioprocess EXCEPT ![i] = TRUE]
  /\ updateVolume(i)
  /\ pc' = [pc EXCEPT ![i] = "returned"]
  /\ UNCHANGED <<fixed, outbound, lost, error, isAiSpeaking, inputAudioContextRef,
                 outputAudioContextRef, inputMediaStreamRef, inputSourceRef,
                 processorRef, analyserRef, nextStartTimeRef, started, ictxOpen,
                 octxOpen, streamLive, tapConnected, octxTime, playback,
                 rejected>>

\* The channel is acknowledged open: onopen runs, the connect promise
\* resolves in the same turn, startSession runs from line 214 to its end,
\* and the callback onopen attached to the promise sends the first message.
ChannelOpened(i) ==
  /\ pc[i] = "awaitConnect"
  /\ chan[i] = "opening"
  /\ chan' = [chan EXCEPT ![i] = "open"]
  /\ isConnected' = TRUE
  /\ aiSessionRef' = i
  /\ onaudioprocess' = [onaudioprocess EXCEPT ![i] = TRUE]
  /\ sendRealtimeInput(i, "begin")
  /\ updateVolume(i)
  /\ pc' = [pc EXCEPT ![i] = "returned"]
  /\ UNCHANGED <<fixed, lost, error, isAiSpeaking, inputAudioContextRef,
                 outputAudioContextRef, inputMediaStreamRef, inputSourceRef,
                 processorRef, analyserRef, nextStartTimeRef, started, ictxOpen,
                 octxOpen, streamLive, tapConnected, octxTime, playback,
                 rejected>>

\* The connect promise rejects: the catch block.
ConnectRejected(i) ==
  /\ pc[i] = "awaitConnect"
  /\ chan[i] \in {"opening", "errored", "closed"}
  /\ \E message \in ErrorTexts, closeThrows \in env.throws :
       startSessionCatch(i, message, inputMediaStreamRef, streamLive,
                         [chan EXCEPT ![i] = "closed"], closeThrows)

\* ------------------------------------------------------ channel callbacks
\* onclose: the channel was closed by the remote side or by close().
OnClose(i) ==
  /\ chan[i] \in {"open", "closing", "errored"}
  /\ \E closeThrows \in env.throws :
       stopSession(inputMediaStreamRef, streamLive,
                   [chan EXCEPT ![i] = "closed"], closeThrows)
  /\ UNCHANGED <<untouched, error, pc>>

\* onerror: the channel failed while opening or while open.
OnError(i) ==
  /\ chan[i] \in {"opening", "open"}
  /\ error' = "Connection Error. Please try again."
  /\ \E closeThrows \in env.throws :
       stopSession(inputMediaStreamRef, streamLive,
                   [chan EXCEPT ![i] = "errored"], closeThrows)
  /\ UNCHANGED <<untouched, pc>>

\* ---------------------------------------------------------------- playback
\* decodeAudioData on a payload of the given byte length: it fails unless the
\* length is a whole number of 16-bit samples; the duration of the buffer is
\* its number of samples (one sample lasts one time unit here).
decodeAudioData(bytes) ==
  IF bytes % BytesPerSample = 0
  THEN [ok |-> TRUE, duration |-> bytes \div BytesPerSample]
  ELSE [ok |-> FALSE, duration |-> 0]

\* Mutant: every inbound message raises the audible flag.
OnMessageSpeaks(i, audio, bytes) ==
  /\ chan[i] = "open"
  /\ msgCount < env.msgs
  /\ audio => bytes \in env.payloads
  /\ msgCount' = msgCount + 1
  /\ isAiSpeaking' = TRUE
  /\ decoding' = IF audio /\ outputAudioContextRef # Null
                 THEN decoding \cup
                      {[id |-> msgCount + 1, ctx |-> outputAudioContextRef,
                        bytes |-> bytes]}
                 ELSE decoding
  /\ UNCHANGED <<fixed, capture, isConnected, error, volume, refs, started, pc,
                 devices, octxTime, scheduled, ended, dropped, rejected>>

\* onmessage up to the await of decodeAudioData.  audio: the message carries
\* inline audio, of the given byte length.
OnMessage(i, audio, bytes) ==
  /\ chan[i] = "open"
  /\ msgCount < env.msgs
  /\ audio => bytes \in env.payloads
  /\ msgCount' = msgCount + 1
  /\ IF audio
     THEN /\ isAiSpeaking' = TRUE
          /\ decoding' = IF outputAudioContextRef = Null THEN decoding
                         ELSE decoding \cup
                              {[id |-> msgCount + 1, ctx |-> outputAudioContextRef,
                                bytes |-> bytes]}
     ELSE UNCHANGED <<isAiSpeaking, decoding>>
  /\ UNCHANGED <<fixed, capture, isConnected, error, volume, refs, started, pc, devices,
                 octxTime, scheduled, ended, dropped, rejected>>

\* Mutant: the segment is started at the device time, whatever the cursor.
StartTimeNow(now, cursor) == now

\* const startTime = Math.max(now, nextStartTimeRef.current)
StartTime(now, cursor) == Max(now, cursor)

\* Mutant: the cursor is advanced from the device time, not from the start.
enqueueFromNow(m, audioBuffer) ==
  LET now == octxTime[m.ctx]
      startTime == StartTime(now, nextStartTimeRef)
  IN /\ nextStartTimeRef' = now + audioBuffer.duration
     /\ scheduled' = Append(scheduled,
                       [id |-> m.id, ctx |-> m.ctx, start |-> startTime,
                        duration |-> audioBuffer.duration, now |-> now])
     /\ ended' = ended \cup {[id |-> m.id, ctx |-> m.ctx,
                              end |-> startTime + audioBuffer.duration]}

\* Lines 174-192: the decoded buffer of message m is scheduled on its context.
enqueue(m, audioBuffer) ==
  LET now == octxTime[m.ctx]
      startTime == StartTime(now, nextStartTimeRef)
  IN /\ nextStartTimeRef' = startTime + audioBuffer.duration
     /\ scheduled' = Append(scheduled,
                       [id |-> m.id, ctx |-> m.ctx, start |-> startTime,
                        duration |-> audioBuffer.duration, now |-> now])
     /\ ended' = ended \cup {[id |-> m.id, ctx |-> m.ctx,
                              end |-> startTime + audioBuffer.duration]}

\* Mutant: a payload that does not decode is handled like a channel error.
DecodeSettledFatal(m) ==
  /\ m \in decoding
  /\ decoding' = decoding \ {m}
  /\ IF decodeAudioData(m.bytes).ok
     THEN /\ enqueue(m, decodeAudioData(m.bytes))
          /\ UNCHANGED <<fixed, capture, state, inputAudioContextRef,
                         outputAudioContextRef, inputMediaStreamRef,
                         inputSourceRef, processorRef, analyserRef, aiSessionRef,
                         animationFrameRef, started, pc, devices, octxTime,
                         msgCount, dropped, rejected>>
     ELSE /\ error' = "Connection Error. Please try again."
          /\ stopSession(inputMediaStreamRef, streamLive, chan, FALSE)
          /\ UNCHANGED <<fixed, capture, analyserRef, started, pc, octxTime, msgCount,
                         ended>>

\* decodeAudioData settles and onmessage runs on: lines 174-192 when the
\* bytes decoded, nothing when they did not (the rejection goes nowhere).
DecodeSettled(m) ==
  /\ m \in decoding
  /\ decoding' = decoding \ {m}
  /\ IF decodeAudioData(m.bytes).ok
     THEN /\ enqueue(m, decodeAudioData(m.bytes))
          /\ UNCHANGED dropped
     ELSE /\ dropped' = dropped \cup {m.id}
          /\ UNCHANGED <<nextStartTimeRef, scheduled, ended>>
  /\ UNCHANGED <<fixed, capture, state, inputAudioContextRef, outputAudioContextRef,
                 inputMediaStreamRef, inputSourceRef, processorRef, analyserRef,
                 aiSessionRef, animationFrameRef, started, pc, devices, octxTime,
                 msgCount, rejected>>

\* Mutant: onended clears the audible flag whatever is queued ahead.
OnEndedClears(e) ==
  /\ e \in ended
  /\ octxTime[e.ctx] >= e.end
  /\ ended' = ended \ {e}
  /\ isAiSpeaking' = FALSE
  /\ UNCHANGED <<fixed, capture, isConnected, error, volume, refs, started, pc, devices,
                 octxTime, msgCount, decoding, scheduled, dropped, rejected>>

\* source.onended of a segment that played to its end.
OnEnded(e) ==
  /\ e \in ended
  /\ octxTime[e.ctx] >= e.end
  /\ ended' = ended \ {e}
  /\ isAiSpeaking' = IF octxTime[e.ctx] >= nextStartTimeRef - Epsilon
                     THEN FALSE ELSE isAiSpeaking
  /\ UNCHANGED <<fixed, capture, isConnected, error, volume, refs, started, pc, devices,
                 octxTime, msgCount, decoding, scheduled, dropped, rejected>>

\* Time passes: the clock of every open output context advances.
Tick ==
  /\ \E i \in Invocations : octxOpen[i]
  /\ \A i \in Invocations : octxOpen[i] => octxTime[i] < env.time
  /\ octxTime' = [i \in Invocations |->
                    IF octxOpen[i] THEN octxTime[i] + 1 ELSE octxTime[i]]
  /\ UNCHANGED <<fixed, capture, state, refs, started, pc, devices, playback, rejected>>

\* ----------------------------------------------------------------- capture
\* Mutant: the handler is attached before the channel opens and sends at once.
AudioProcessEager(i) ==
  /\ tapConnected[i] /\ ictxOpen[i]
  /\ env.capture => Len(outbound[i]) < env.outbox
  /\ sendRealtimeInput(i, "media")
  /\ UNCHANGED <<fixed, onaudioprocess, lost, state, refs, started, pc, devices,
                 octxTime, playback, rejected>>

\* Processor i has a chunk ready (an audioprocess event): lines 218-225 when
\* the handler has been assigned, nothing at all when it has not.
AudioProcess(i) ==
  /\ tapConnected[i] /\ ictxOpen[i]
  /\ IF onaudioprocess[i]
     THEN /\ env.capture => Len(outbound[i]) < env.outbox
          /\ sendRealtimeInput(i, "media")
          /\ UNCHANGED lost
     ELSE /\ lost' = IF env.capture THEN [lost EXCEPT ![i] = TRUE] ELSE lost
          /\ UNCHANGED outbound
  /\ UNCHANGED <<fixed, onaudioprocess, state, refs, started, pc, devices,
                 octxTime, playback, rejected>>

\* ------------------------------------------------------------ volume meter
\* The animation frame requested by updateVolume of invocation i fires.
AnimationFrame(i) ==
  /\ rafLoop[i]
  /\ updateVolume(i)
  /\ UNCHANGED <<fixed, capture, isConnected, error, isAiSpeaking, inputAudioContextRef,
                 outputAudioContextRef, inputMediaStreamRef, inputSourceRef,
                 processorRef, analyserRef, nextStartTimeRef, aiSessionRef,
                 started, pc, chan, ictxOpen, octxOpen, streamLive, tapConnected,
                 octxTime, playback, rejected>>

Next ==
  \/ ClickStart
  \/ ClickStop
  \/ \E i \in Invocations : GetUserMediaResolved(i)
  \/ \E i \in Invocations : GetUserMediaRejected(i)
  \/ \E i \in Invocations : ChannelOpened(i)
  \/ \E i \in Invocations : ConnectRejected(i)
  \/ \E i \in Invocations : OnClose(i)
  \/ \E i \in Invocations : OnError(i)
  \/ \E i \in Invocations, bytes \in PayloadLengths : OnMessage(i, TRUE, bytes)
  \/ \E i \in Invocations : OnMessage(i, FALSE, 0)
  \/ \E m \in decoding : DecodeSettled(m)
  \/ \E e \in ended : OnEnded(e)
  \/ Tick
  \/ \E i \in Invocations : AnimationFrame(i)
  \/ \E i \in Invocations : AudioProcess(i)

Spec == Init /\ [][Next]_vars
SpecPlayback == InitPlayback /\ [][Next]_vars
SpecMeter == InitMeter /\ [][Next]_vars
SpecCapture == InitCapture /\ [][Next]_vars

\* ------------------------------------------------------ session vocabulary
ChannelLive(i) == chan[i] \in {"opening", "open"}

\* Invocation i holds nothing: no stream, context, tap, channel or tick loop.
Disposed(i) ==
  /\ ~streamLive[i] /\ ~tapConnected[i] /\ ~ictxOpen[i] /\ ~octxOpen[i]
  /\ ~ChannelLive(i) /\ ~rafLoop[i]

ReleasedAll == \A i \in Invocations : Disposed(i)

ErrorShown == error \notin {NoError, ""}

\* ------------------------------------------------------------------ claims

\* C1 (as claimed; the code violates it): single-flight.  At any time at most
\* one input stream, one pair of audio contexts, one live channel and one
\* volume-tick loop exist.
C1_SingleFlight ==
  /\ Cardinality({i \in Invocations : streamLive[i]}) <= 1
  /\ Cardinality({i \in Invocations : ictxOpen[i]}) <= 1
  /\ Cardinality({i \in Invocations : octxOpen[i]}) <= 1
  /\ Cardinality({i \in Invocations : ChannelLive(i)}) <= 1
  /\ Cardinality({i \in Invocations : rafLoop[i]}) <= 1

\* C2: a start request made while the session is Active (connected) leaves
\* the channel handle, the input and output devices, the Timeline Cursor, the
\* audible flag and the connected signal as they were.
C2_StartWhileActiveRejected ==
  [][(isConnected /\ ClickStart) =>
       UNCHANGED <<isConnected, isAiSpeaking, nextStartTimeRef, aiSessionRef,
                   inputMediaStreamRef, inputSourceRef, processorRef,
                   inputAudioContextRef, outputAudioContextRef,
                   animationFrameRef, devices, scheduled>>]_vars

\* C2 witness: a start request was refused while the session was Active and
\* holding its channel and devices.
C2_Witness ==
  /\ rejected /\ isConnected
  /\ aiSessionRef # Null /\ chan[aiSessionRef] = "open"
  /\ inputMediaStreamRef # Null /\ streamLive[inputMediaStreamRef]
  /\ outputAudioContextRef # Null /\ octxOpen[outputAudioContextRef]

\* C3 (as claimed; the code violates it): when a start resumes from
\* getUserMedia or from the channel open after a cleanup closed its audio
\* contexts, it ends with nothing held and connected false.
C3_StopWhileStarting ==
  [][\A i \in Invocations :
       ((GetUserMediaResolved(i) \/ ChannelOpened(i)) /\ ~octxOpen[i])
         => (Disposed(i)' /\ ~isConnected')]_vars

\* C4: within one session the segments start no earlier than the device time
\* at scheduling, each starts no earlier than the end of every earlier one
\* (so starts are non-decreasing and intervals do not overlap), and the
\* Timeline Cursor is the end of the latest segment (so it never decreases).
C4_Timeline ==
  /\ \A k \in 1..Len(scheduled) : scheduled[k].start >= scheduled[k].now
  /\ \A k \in 1..Len(scheduled) : \A l \in 1..Len(scheduled) :
       k < l => /\ scheduled[l].start >= scheduled[k].start
                /\ scheduled[l].start >= scheduled[k].start + scheduled[k].duration
  /\ scheduled # <<>> =>
       nextStartTimeRef = scheduled[Len(scheduled)].start
                          + scheduled[Len(scheduled)].duration

\* C4 witness: two segments of one session, the second deferred past its
\* device time to the end of the first.
C4_Witness ==
  /\ Len(scheduled) >= 2
  /\ scheduled[2].start > scheduled[2].now
  /\ scheduled[2].start = scheduled[1].start + scheduled[1].duration

\* C5: an inbound payload that fails to decode is dropped: the step changes
\* neither the connected signal, the error signal, the Timeline Cursor, the
\* scheduled segments, the refs nor any device or channel.
C5_DecodeErrorDropped ==
  [][\A m \in decoding :
       (~decodeAudioData(m.bytes).ok /\ DecodeSettled(m))
         => UNCHANGED <<isConnected, error, refs, devices, scheduled, ended>>]_vars

\* C5 witness: a message was dropped and a later message of the same, still
\* connected, session was scheduled.
C5_Witness ==
  /\ isConnected /\ error = NoError
  /\ \E d \in dropped : \E k \in 1..Len(scheduled) : scheduled[k].id > d

\* C6 (as claimed; the code violates it): when getUserMedia rejects, the
\* handler leaves the app Idle: not connected, nothing held, error shown.
C6_AcquisitionFailure ==
  [][\A i \in Invocations :
       GetUserMediaRejected(i) => (~isConnected' /\ ReleasedAll' /\ ErrorShown')]_vars

\* C7 (as claimed; the code violates it): when the channel fails to open or
\* fails while open, the handler leaves the app Idle: not connected, nothing
\* held, error shown.
C7_ChannelFailure ==
  [][\A i \in Invocations :
       (OnError(i) \/ ConnectRejected(i))
         => (~isConnected' /\ ReleasedAll' /\ ErrorShown')]_vars

\* C8 (as claimed; the code violates it): whenever the app is Idle (not
\* connected, no output context), the Timeline Cursor is 0 and the audible
\* flag is false.
C8_IdleReset ==
  (~isConnected /\ outputAudioContextRef = Null)
    => (nextStartTimeRef = 0 /\ ~isAiSpeaking)

\* min(mean(bins) / 100, 1), as a numerator over VolumeDen.
ExpectedVolume(bins) ==
  IF SumTo(bins, NumBins) >= VolumeNorm * NumBins
  THEN VolumeDen ELSE SumTo(bins, NumBins)

\* C9: the volume signal is always in [0,1], it is min(mean/100, 1) of some
\* snapshot of the analyser, and it is 0 when no tick loop is left running.
C9_VolumeRange ==
  /\ 0 <= volume /\ volume <= VolumeDen
  /\ volume \in {ExpectedVolume(bins) : bins \in Snapshots(env.bins)}
  /\ (\A i \in Invocations : ~rafLoop[i]) => volume = 0

\* C9 witness: a tick has read a snapshot whose mean is above 100 (all bins
\* 255 among them) and the signal is exactly 1.
C9_Witness ==
  /\ isConnected /\ \E i \in Invocations : rafLoop[i]
  /\ volume = VolumeDen

\* C10 (as claimed; the code violates it): when the session is not Active,
\* no volume tick is pending and the volume signal is 0.
C10_MeterStopsWithSession ==
  ~isConnected => (volume = 0 /\ \A i \in Invocations : ~rafLoop[i])

\* C11 (as claimed; the code violates it): once cleanup has closed the output
\* context of a session, no segment of that session is started: a message
\* delivered when no output context is held starts no decode, and a decode
\* that settles on a closed context schedules nothing and leaves the Timeline
\* Cursor alone.
C11_NoStartAfterCleanup ==
  [][/\ \A m \in decoding :
          (DecodeSettled(m) /\ ~octxOpen[m.ctx])
            => UNCHANGED <<nextStartTimeRef, scheduled, ended>>
     /\ \A i \in Invocations : \A bytes \in PayloadLengths :
          (OnMessage(i, TRUE, bytes) /\ outputAudioContextRef = Null)
            => UNCHANGED <<nextStartTimeRef, scheduled, decoding>>]_vars

\* The scenario of the specification, in tenths of a second: two 1-second
\* segments enqueued at device times 0.0 and 0.5 from cursor 0 start at 0.0
\* and 1.0 and leave the cursor at 2.0.
C12_Scenario ==
  LET first == StartTime(0, 0)
      second == StartTime(5, first + 10)
  IN first = 0 /\ second = 10 /\ second + 10 = 20

\* C12: every enqueue at device time now with cursor c schedules the segment
\* at max(now, c) and sets the cursor to that start plus the duration of the
\* segment; and the two-segment scenario gives starts 0.0 and 1.0 and cursor
\* 2.0.
C12_EnqueueRule ==
  [][\A m \in decoding :
       (decodeAudioData(m.bytes).ok /\ DecodeSettled(m)) =>
          LET now == octxTime[m.ctx]
              c == nextStartTimeRef
              seg == scheduled'[Len(scheduled')]
          IN /\ Len(scheduled') = Len(scheduled) + 1
             /\ seg.id = m.id
             /\ seg.start = (IF now >= c THEN now ELSE c)
             /\ nextStartTimeRef' = seg.start + decodeAudioData(m.bytes).duration
             /\ C12_Scenario]_vars

\* C12 witness: the scenario with segments two units long: the first is
\* enqueued at time 0 from cursor 0, the second half-way through it; they
\* start at 0 and 2 and the cursor is 4.
C12_Witness ==
  /\ Len(scheduled) = 2
  /\ scheduled[1].duration = 2 /\ scheduled[2].duration = 2
  /\ scheduled[1].now = 0 /\ scheduled[1].start = 0
  /\ scheduled[2].now = 1 /\ scheduled[2].start = 2
  /\ nextStartTimeRef = 4

\* C13: when a segment completes, the audible flag becomes false exactly when
\* the device time is at least the Timeline Cursor minus epsilon and is left
\* as it was otherwise; the callback changes neither the cursor nor any
\* scheduled segment.
C13_CompletionPolicy ==
  [][\A e \in ended :
       OnEnded(e) =>
         /\ (octxTime[e.ctx] >= nextStartTimeRef - Epsilon) => ~isAiSpeaking'
         /\ (octxTime[e.ctx] < nextStartTimeRef - Epsilon)
              => isAiSpeaking' = isAiSpeaking
         /\ UNCHANGED <<nextStartTimeRef, scheduled>>]_vars

\* C13 witness: the first of two segments has completed while the second is
\* still queued more than epsilon ahead of the device time, and the audible
\* flag is still true.
C13_Witness ==
  /\ Len(scheduled) = 2 /\ isAiSpeaking
  /\ \A e \in ended : e.id # scheduled[1].id
  /\ \E e \in ended : e.id = scheduled[2].id
  /\ octxTime[scheduled[1].ctx] >= scheduled[1].start + scheduled[1].duration
  /\ octxTime[scheduled[1].ctx] < nextStartTimeRef - Epsilon

\* The channel of invocation i is established: its open was acknowledged.
Established(i) == chan[i] \notin {"none", "opening"}

\* Number of messages of the given content sent on channel i.
Sent(i, content) ==
  Cardinality({k \in 1..Len(outbound[i]) : outbound[i][k] = content})

\* C14: nothing captured is sent on a channel that is not established: a
\* chunk that becomes ready while the channel is still opening changes nothing
\* on the outbound channel, every chunk sent goes out on an established
\* channel, and the opening of the channel sends no chunk kept from before.
C14_NoSendBeforeOpen ==
  [][\A i \in Invocations :
       /\ (AudioProcess(i) /\ ~Established(i)) => outbound' = outbound
       /\ Sent(i, "media")' > Sent(i, "media") => (Established(i) /\ AudioProcess(i))
       /\ ~Established(i) => Sent(i, "media") = 0]_vars

\* C14 witness: a chunk of the session found no handler while the channel was
\* opening, and after the open a later chunk was sent, behind the first
\* message.
C14_Witness ==
  \E i \in Invocations :
    /\ lost[i] /\ chan[i] = "open"
    /\ outbound[i] = <<"begin", "media">>

\* C15: the first message ("begin") is sent on a channel exactly when its open
\* is acknowledged, and never otherwise: a channel that is not established has
\* none, and an established channel that was opened has exactly one.
C15_OneBegin ==
  [][\A i \in Invocations :
       /\ Sent(i, "begin")' = IF ChannelOpened(i) THEN 1 ELSE Sent(i, "begin")
       /\ ~Established(i) => Sent(i, "begin") = 0
       /\ chan[i] \in {"open", "closing"} => Sent(i, "begin") = 1]_vars

\* C15 witness: one start attempt has an open channel with its one first
\* message sent, first of all that was sent.
C15_Witness ==
  \E i \in Invocations :
    /\ chan[i] = "open" /\ isConnected /\ aiSessionRef = i
    /\ Sent(i, "begin") = 1 /\ outbound[i][1] = "begin"

\* A step that runs stopSession.
Cleanup ==
  \/ ClickStop
  \/ \E j \in Invocations : OnClose(j) \/ OnError(j)
  \/ \E j \in Invocations : GetUserMediaRejected(j) \/ ConnectRejected(j)

\* A cleanup that called close() on the open channel it held, and close()
\* threw: the channel is as open as before.
CloseThrew ==
  /\ Cleanup
  /\ aiSessionRef # Null
  /\ chan[aiSessionRef] = "open" /\ chan'[aiSessionRef] = "open"

\* C16: a cleanup in which close() throws still runs to its end and shows no
\* error: the input stream, the sampling tap, both audio contexts and the
\* tick loop it held are released, every ref is null, connected is false, the
\* Timeline Cursor is 0, and a stop request or a close callback leaves the
\* error signal as it was.
C16_CloseFailureSwallowed ==
  [][CloseThrew =>
       /\ inputMediaStreamRef # Null => ~streamLive'[inputMediaStreamRef]
       /\ processorRef # Null => ~tapConnected'[processorRef]
       /\ inputAudioContextRef # Null => ~ictxOpen'[inputAudioContextRef]
       /\ outputAudioContextRef # Null => ~octxOpen'[outputAudioContextRef]
       /\ animationFrameRef # Null => ~rafLoop'[animationFrameRef]
       /\ aiSessionRef' = Null
       /\ inputMediaStreamRef' = Null /\ processorRef' = Null
       /\ inputSourceRef' = Null /\ inputAudioContextRef' = Null
       /\ outputAudioContextRef' = Null /\ animationFrameRef' = Null
       /\ ~isConnected' /\ nextStartTimeRef' = 0 /\ ~isAiSpeaking' /\ volume' = 0
       /\ (ClickStop \/ \E j \in Invocations : OnClose(j)) => error' = error]_vars

\* C16 witness: after a stop in which close() threw: the channel is still
\* open, no handle is kept, every device of the session is released, the app
\* shows Idle and no error.
C16_Witness ==
  \E i \in Invocations :
    /\ chan[i] = "open" /\ aiSessionRef = Null /\ ~isConnected
    /\ ~streamLive[i] /\ ~tapConnected[i] /\ ~ictxOpen[i] /\ ~octxOpen[i]
    /\ ~rafLoop[i] /\ nextStartTimeRef = 0 /\ error = NoError
    /\ \A j \in Invocations : j # i => pc[j] = "unborn"

\* The state stopSession leaves: every ref null and every signal it writes
\* reset.  Run from such a state stopSession changes nothing.
CleanedUp ==
  /\ aiSessionRef = Null /\ inputMediaStreamRef = Null /\ processorRef = Null
  /\ inputSourceRef = Null /\ inputAudioContextRef = Null
  /\ outputAudioContextRef = Null /\ animationFrameRef = Null
  /\ ~isConnected /\ ~isAiSpeaking /\ volume = 0 /\ nextStartTimeRef = 0

\* C17 (as claimed; the code violates it): every run of stopSession leaves
\* the cleaned-up state with every handle released (no stream, tap, context,
\* live channel or tick loop of any start attempt is left); a second run from
\* there (the close callback that follows) changes nothing but the state of
\* the closed channel; and a run closes no channel but the open one it held.
C17_CleanupIdempotentTotal ==
  [][/\ Cleanup => (CleanedUp' /\ ReleasedAll')
     /\ \A j \in Invocations :
          (OnClose(j) /\ CleanedUp)
            => /\ UNCHANGED <<state, refs, ictxOpen, octxOpen, streamLive,
                             tapConnected, rafLoop>>
               /\ chan' = [chan EXCEPT ![j] = "closed"]
     /\ \A j \in Invocations :
          (chan[j] # "closing" /\ chan'[j] = "closing")
            => (chan[j] = "open" /\ aiSessionRef = j)]_vars

\* C18: an inbound message without audio delivered while the session is
\* Active changes nothing of the session: the signals, the refs (the Timeline
\* Cursor among them), the devices and channels, the pending decodes, the
\* scheduled segments and the pending completions are as before.
C18_NoAudioNoOp ==
  [][\A i \in Invocations :
       (OnMessage(i, FALSE, 0) /\ isConnected)
         => UNCHANGED <<state, refs, devices, pc, decoding, scheduled, ended,
                        dropped, octxTime, capture>>]_vars

\* C18 witness: a message was delivered to the Active session and there is no
\* trace of audio: the audible flag is false and nothing is decoding,
\* scheduled, dropped or waiting to complete.
C18_Witness ==
  /\ isConnected /\ msgCount > 0 /\ started = 1
  /\ ~isAiSpeaking /\ nextStartTimeRef = 0
  /\ decoding = {} /\ scheduled = <<>> /\ dropped = {} /\ ended = {}

\* C19 (as claimed; the code violates it): whenever the connected signal is
\* true the session holds its channel, open, its input stream, live, and its
\* output context, not closed; so a stop request then finds the channel.
C19_ConnectedHoldsHandles ==
  isConnected =>
    /\ aiSessionRef # Null /\ chan[aiSessionRef] = "open"
    /\ inputMediaStreamRef # Null /\ streamLive[inputMediaStreamRef]
    /\ outputAudioContextRef # Null /\ octxOpen[outputAudioContextRef]

\* C20 (as claimed; the code violates it): the segments of a session are on
\* the timeline in the order their messages were delivered: of two scheduled
\* segments the one whose message came first starts no later.
C20_DeliveryOrder ==
  \A k \in 1..Len(scheduled) : \A l \in 1..Len(scheduled) :
    scheduled[k].id < scheduled[l].id
      => scheduled[k].start <= scheduled[l].start

====
